---- MODULE Spec2Model ----
(***************************************************************************)
(* Model of pacleaner.py: the package value type and its comparisons, the  *)
(* two catalogs built from directory listings, the selection functions     *)
(* (uninstalled_packages, older_than, find_files) and the main run with    *)
(* its print/remove action layer.                                          *)
(*                                                                         *)
(* Strings are sequences of codepoints, so that str comparison, split and  *)
(* rsplit are computed the way Python computes them.                       *)
(***************************************************************************)
EXTENDS Integers, Sequences, FiniteSets, TLC

VARIABLES
    pc,            \* position of the run in __main__
    args,          \* parsed command line: uninstalled, morethan, delete, number
    installedDir,  \* the installed-db directory: listable flag and its entries
    cacheDir,      \* the cache directory: listable flag and its listing
    installed,     \* InstalledPkgList.pkg_list
    pkgfiles,      \* PkgFileList.pkg_list
    old,           \* result of older_than
    uninstalled,   \* result of uninstalled_packages
    old_files,     \* result of find_files(old, pkgfiles)
    queue,         \* the packages the running remove_packages loop still has to visit
    attempted,     \* history of os.remove calls: <<[file, outcome]>>
    removed,       \* files this run removed from the cache directory
    stdout,        \* printed lines
    failed,        \* TRUE once a catalog constructor raised
    cmpIn,         \* comparison harness: the Package values compared
    cmpOut,        \* comparison harness: results of ==, <, <=, >, >=
    parseIn,       \* parsing harness: the parts a file name was written from
    parseOut       \* parsing harness: result of PkgFile(filename, path)

vars == <<pc, args, installedDir, cacheDir, installed, pkgfiles, old, uninstalled, old_files,
          queue, attempted, removed, stdout, failed, cmpIn, cmpOut, parseIn, parseOut>>

runVars == <<pc, args, installedDir, cacheDir, installed, pkgfiles, old, uninstalled, old_files,
             queue, attempted, removed, stdout, failed>>

harnessVars == <<cmpIn, cmpOut, parseIn, parseOut>>

-----------------------------------------------------------------------------
(* Bounds *)

MaxFiles == 3        \* longest cache directory listing
MaxKeep == 2         \* largest --number

-----------------------------------------------------------------------------
(* Characters and string literals of the source *)

HYPHEN == 45
DOT == 46

EXTENSIONS == << <<112,107,103,46,116,97,114,46,120,122>>,          \* "pkg.tar.xz"
                 <<112,107,103,46,116,97,114,46,103,122,105,112>> >> \* "pkg.tar.gzip"

NAME_MARKER == <<37,78,65,77,69,37>>               \* "%NAME%"
VERSION_MARKER == <<37,86,69,82,83,73,79,78,37>>   \* "%VERSION%"
ARCH_MARKER == <<37,65,82,67,72,37>>               \* "%ARCH%"

-----------------------------------------------------------------------------
(* Python str and list primitives *)

SetMin(S) == CHOOSE x \in S : \A y \in S : x <= y
SetMax(S) == CHOOSE x \in S : \A y \in S : x >= y

\* str.__lt__: codepoint-wise lexicographic order, a proper prefix sorts first
StrLt(s, t) ==
    LET n == IF Len(s) < Len(t) THEN Len(s) ELSE Len(t)
        diff == {i \in 1..n : s[i] # t[i]}
    IN IF diff = {} THEN Len(s) < Len(t)
       ELSE s[SetMin(diff)] < t[SetMin(diff)]

\* str.endswith(suffix)
endswith(s, suffix) ==
    /\ Len(suffix) <= Len(s)
    /\ SubSeq(s, Len(s) - Len(suffix) + 1, Len(s)) = suffix

\* str.endswith(tuple(EXTENSIONS))
endswith_any(s, suffixes) == \E i \in 1..Len(suffixes) : endswith(s, suffixes[i])

\* str.rsplit(sep, maxsplit) for a one-character sep; maxsplit < 0 is unlimited
RECURSIVE rsplit(_, _, _)
rsplit(s, sep, maxsplit) ==
    LET idx == {i \in 1..Len(s) : s[i] = sep}
    IN IF maxsplit = 0 \/ idx = {} THEN <<s>>
       ELSE LET i == SetMax(idx)
            IN Append(rsplit(SubSeq(s, 1, i - 1), sep, maxsplit - 1),
                      SubSeq(s, i + 1, Len(s)))

\* str.split(sep, maxsplit) for a one-character sep; maxsplit < 0 is unlimited
RECURSIVE split(_, _, _)
split(s, sep, maxsplit) ==
    LET idx == {i \in 1..Len(s) : s[i] = sep}
    IN IF maxsplit = 0 \/ idx = {} THEN <<s>>
       ELSE LET i == SetMin(idx)
            IN <<SubSeq(s, 1, i - 1)>> \o split(SubSeq(s, i + 1, Len(s)), sep, maxsplit - 1)

\* list.index(x): position (0-based) of the first occurrence, -1 stands for ValueError
index(lines, x) ==
    LET idx == {i \in 1..Len(lines) : lines[i] = x}
    IN IF idx = {} THEN -1 ELSE SetMin(idx) - 1

-----------------------------------------------------------------------------
(* class Package *)

NoPackage == [name |-> <<>>, version |-> <<>>, pkg_version |-> <<>>, arch |-> <<>>]

\* Package.__eq__
Package__eq__(self, other) ==
    /\ self.name = other.name
    /\ self.version = other.version
    /\ self.pkg_version = other.pkg_version
    /\ self.arch = other.arch

\* Package.__ne__
Package__ne__(self, other) == ~Package__eq__(self, other)

\* A comparison either returns a bool or raises; exc = "" when it returned.
Returned(b) == [exc |-> "", val |-> b]
Raised(e) == [exc |-> e, val |-> FALSE]

\* Package.__lt__: the equal branch evaluates the unbound name `false`
Package__lt__(self, other) ==
    IF Package__eq__(self, other) THEN Raised("NameError")
    ELSE IF self.name = other.name
         THEN IF self.version = other.version
              THEN Returned(StrLt(self.pkg_version, other.pkg_version))
              ELSE Returned(StrLt(self.version, other.version))
         ELSE Returned(StrLt(self.name, other.name))

\* Package.__le__: `or` short-circuits, so __lt__ is only called on unequal values
Package__le__(self, other) ==
    IF Package__eq__(self, other) THEN Returned(TRUE)
    ELSE Package__lt__(self, other)

\* Package.__gt__
Package__gt__(self, other) ==
    LET le == Package__le__(self, other)
    IN IF le.exc # "" THEN le ELSE Returned(~le.val)

\* Package.__ge__
Package__ge__(self, other) ==
    IF Package__eq__(self, other) THEN Returned(TRUE)
    ELSE Package__gt__(self, other)

\* Package.__str__
Package__str__(self) ==
    self.name \o <<HYPHEN>> \o self.version \o <<HYPHEN>> \o self.pkg_version

-----------------------------------------------------------------------------
(* class PkgFile, class InstalledPkg *)

NoPkgFile == [name |-> <<>>, version |-> <<>>, pkg_version |-> <<>>, arch |-> <<>>,
              file_ext |-> <<>>, filename |-> <<>>]

\* variant of PkgFile that splits at the first three hyphens instead of the last three
PkgFile_split_left(filename) ==
    LET parts == split(filename, HYPHEN, 3)
    IN IF Len(parts) # 4 THEN [exc |-> "ValueError", val |-> NoPkgFile]
       ELSE LET rest == split(parts[4], DOT, 1)
            IN IF Len(rest) # 2 THEN [exc |-> "ValueError", val |-> NoPkgFile]
               ELSE [exc |-> "",
                     val |-> [name |-> parts[1], version |-> parts[2],
                              pkg_version |-> parts[3], arch |-> rest[1],
                              file_ext |-> rest[2], filename |-> filename]]

\* PkgFile.__init__: both unpackings raise ValueError on a wrong number of parts.
\* fullpath is os.path.join(path, filename); with one cache directory per run
\* the file name identifies the file.
PkgFile(filename) ==
    LET parts == rsplit(filename, HYPHEN, 3)
    IN IF Len(parts) # 4 THEN [exc |-> "ValueError", val |-> NoPkgFile]
       ELSE LET rest == split(parts[4], DOT, 1)
            IN IF Len(rest) # 2 THEN [exc |-> "ValueError", val |-> NoPkgFile]
               ELSE [exc |-> "",
                     val |-> [name |-> parts[1], version |-> parts[2],
                              pkg_version |-> parts[3], arch |-> rest[1],
                              file_ext |-> rest[2], filename |-> filename]]

\* InstalledPkg.__init__: version.split('-') must give exactly two parts
InstalledPkg(name, version, arch) ==
    LET parts == split(version, HYPHEN, -1)
    IN IF Len(parts) # 2 THEN [exc |-> "ValueError", val |-> NoPackage]
       ELSE [exc |-> "",
             val |-> [name |-> name, version |-> parts[1],
                      pkg_version |-> parts[2], arch |-> arch]]

-----------------------------------------------------------------------------
(* class PkgList *)

\* the key attrgetter("name", "version", "pkg_version") builds, compared as
\* Python compares tuples of str: the first unequal component decides
KeyLt(a, b) ==
    IF a.name # b.name THEN StrLt(a.name, b.name)
    ELSE IF a.version # b.version THEN StrLt(a.version, b.version)
    ELSE StrLt(a.pkg_version, b.pkg_version)

\* one insertion of the stable sort: x goes after every element not greater than it
RECURSIVE InsertSorted(_, _)
InsertSorted(sortedList, x) ==
    IF sortedList = <<>> THEN <<x>>
    ELSE IF KeyLt(x, Head(sortedList)) THEN <<x>> \o sortedList
    ELSE <<Head(sortedList)>> \o InsertSorted(Tail(sortedList), x)

\* sorted(list, key = attrgetter("name", "version", "pkg_version")): ascending, stable
RECURSIVE sorted(_)
sorted(list) ==
    IF list = <<>> THEN <<>>
    ELSE InsertSorted(sorted(SubSeq(list, 1, Len(list) - 1)), list[Len(list)])

\* PkgList.sort: pkg_list is replaced by the sorted list
PkgList_sort(pkg_list) == sorted(pkg_list)

\* PkgList.names
names(pkg_list) == [i \in 1..Len(pkg_list) |-> pkg_list[i].name]

\* PkgList.get_by_name
get_by_name(pkg_list, name) == SelectSeq(pkg_list, LAMBDA pkg : pkg.name = name)

\* PkgList.unique: the distinct names, in order of first occurrence
RECURSIVE unique(_)
unique(pkg_list) ==
    IF pkg_list = <<>> THEN <<>>
    ELSE LET result == unique(SubSeq(pkg_list, 1, Len(pkg_list) - 1))
             pkg == pkg_list[Len(pkg_list)]
         IN IF \E i \in 1..Len(result) : result[i] = pkg.name
            THEN result ELSE Append(result, pkg.name)

\* x in list
InList(x, list) == \E i \in 1..Len(list) : list[i] = x

-----------------------------------------------------------------------------
(* class PkgFileList, class InstalledPkgList *)

\* the loop of PkgFileList.__init__ over the filtered listing; the first
\* PkgFile that raises ends the construction
RECURSIVE PkgFileLoop(_, _)
PkgFileLoop(filelist, acc) ==
    IF filelist = <<>> THEN [exc |-> "", val |-> acc]
    ELSE LET f == PkgFile(Head(filelist))
         IN IF f.exc # "" THEN [exc |-> f.exc, val |-> acc]
            ELSE PkgFileLoop(Tail(filelist), Append(acc, f.val))

\* PkgFileList.__init__: os.listdir raises OSError on an unlistable directory
PkgFileList(dir) ==
    IF ~dir.listable THEN [exc |-> "OSError", val |-> <<>>]
    ELSE PkgFileLoop(SelectSeq(dir.listing, LAMBDA f : endswith_any(f, EXTENSIONS)), <<>>)

\* the body of the with-block for one sub-directory: the three marker look-ups
\* and the InstalledPkg construction
InstalledFromDesc(lines) ==
    LET n == index(lines, NAME_MARKER)
        v == index(lines, VERSION_MARKER)
        a == index(lines, ARCH_MARKER)
    IN IF n < 0 THEN [exc |-> "ValueError", val |-> NoPackage]
       ELSE IF n + 2 > Len(lines) THEN [exc |-> "IndexError", val |-> NoPackage]
       ELSE IF v < 0 THEN [exc |-> "ValueError", val |-> NoPackage]
       ELSE IF v + 2 > Len(lines) THEN [exc |-> "IndexError", val |-> NoPackage]
       ELSE IF a < 0 THEN [exc |-> "ValueError", val |-> NoPackage]
       ELSE IF a + 2 > Len(lines) THEN [exc |-> "IndexError", val |-> NoPackage]
       ELSE InstalledPkg(lines[n + 2], lines[v + 2], lines[a + 2])

\* the loop of InstalledPkgList.__init__ over the sub-directories
RECURSIVE InstalledLoop(_, _)
InstalledLoop(pkgs, acc) ==
    IF pkgs = <<>> THEN [exc |-> "", val |-> acc]
    ELSE LET p == Head(pkgs)
         IN IF ~p.has_desc THEN [exc |-> "OSError", val |-> acc]
            ELSE LET r == InstalledFromDesc(p.lines)
                 IN IF r.exc # "" THEN [exc |-> r.exc, val |-> acc]
                    ELSE InstalledLoop(Tail(pkgs), Append(acc, r.val))

\* InstalledPkgList.__init__: entries that are not directories are skipped
InstalledPkgList(dir) ==
    IF ~dir.listable THEN [exc |-> "OSError", val |-> <<>>]
    ELSE InstalledLoop(SelectSeq(dir.entries, LAMBDA p : p.isdir), <<>>)

-----------------------------------------------------------------------------
(* The selection functions *)

\* variant of uninstalled_packages with the membership test inverted
uninstalled_packages_inverted(pkg_list, installed_list) ==
    SelectSeq(pkg_list, LAMBDA pkgfile : InList(pkgfile.name, names(installed_list)))

\* uninstalled_packages
uninstalled_packages(pkg_list, installed_list) ==
    SelectSeq(pkg_list, LAMBDA pkgfile : ~InList(pkgfile.name, names(installed_list)))

\* list[start:stop] of Python for start >= 0: a negative stop counts from the
\* end, and -0 is 0
PySlice(list, start, stop) ==
    LET n == Len(list)
        e == IF stop < 0 THEN (IF n + stop < 0 THEN 0 ELSE n + stop)
             ELSE (IF stop > n THEN n ELSE stop)
    IN SubSeq(list, start + 1, e)

\* variant of older_than_one that keeps the lowest entries: full_list[number:]
older_than_one_upper(pkg_list, pkg, number) ==
    LET full_list == get_by_name(pkg_list, pkg)
    IN IF Len(full_list) > number
       THEN SubSeq(sorted(full_list), number + 1, Len(full_list))
       ELSE <<>>

\* the body of the loop of older_than for one installed name
older_than_one(pkg_list, pkg, number) ==
    LET full_list == get_by_name(pkg_list, pkg)
    IN IF Len(full_list) > number
       THEN PySlice(sorted(full_list), 0, 0 - number)
       ELSE <<>>

\* the loop of older_than over installed.unique()
RECURSIVE older_than_loop(_, _, _)
older_than_loop(pkg_list, uniq, number) ==
    IF uniq = <<>> THEN <<>>
    ELSE older_than_one(pkg_list, Head(uniq), number)
         \o older_than_loop(pkg_list, Tail(uniq), number)

\* older_than
older_than(pkg_list, installed_list, number) ==
    older_than_loop(pkg_list, unique(installed_list), number)

\* the inner loop of find_files: every catalog entry equal to the package
find_files_one(package, pkg_list) ==
    SelectSeq(pkg_list, LAMBDA pkgfile : Package__eq__(pkgfile, package))

\* find_files
RECURSIVE find_files(_, _)
find_files(packages, pkg_list) ==
    IF packages = <<>> THEN <<>>
    ELSE find_files_one(Head(packages), pkg_list) \o find_files(Tail(packages), pkg_list)

-----------------------------------------------------------------------------
(* Inputs of a run *)

S_foo == <<102,111,111>>                 \* "foo"
S_bar == <<98,97,114>>                   \* "bar"
S_foo_bar == <<102,111,111,45,98,97,114>> \* "foo-bar"
S_1 == <<49>>                            \* "1"
S_3 == <<51>>                            \* "3"
S_9 == <<57>>                            \* "9"
S_10 == <<49,48>>                        \* "10"
S_1_0 == <<49,46,48>>                    \* "1.0"
S_any == <<97,110,121>>                  \* "any"
S_i686 == <<105,54,56,54>>               \* "i686"
S_x86_64 == <<120,56,54,95,54,52>>       \* "x86_64"
S_sig == <<115,105,103>>                 \* "sig"

\* the file name pacman writes: name-version-release-arch.ext
CacheName(name, version, rel, arch, ext) ==
    name \o <<HYPHEN>> \o version \o <<HYPHEN>> \o rel \o <<HYPHEN>> \o arch \o <<DOT>> \o ext

\* the lines of a desc file
DescLines(name, version, rel, arch) ==
    <<NAME_MARKER, name, VERSION_MARKER, version \o <<HYPHEN>> \o rel, ARCH_MARKER, arch>>

F_foo_9_xz == CacheName(S_foo, S_9, S_1, S_any, EXTENSIONS[1])
F_foo_10_xz == CacheName(S_foo, S_10, S_1, S_any, EXTENSIONS[1])
F_foo_9_gzip == CacheName(S_foo, S_9, S_1, S_any, EXTENSIONS[2])
F_foo_10_gzip == CacheName(S_foo, S_10, S_1, S_any, EXTENSIONS[2])
F_bar_1_xz == CacheName(S_bar, S_1, S_1, S_i686, EXTENSIONS[1])
F_short == S_foo \o <<HYPHEN>> \o S_1 \o <<DOT>> \o EXTENSIONS[1]   \* "foo-1.pkg.tar.xz"
F_other == CacheName(S_foo, S_9, S_1, S_any, S_sig)                 \* not an archive

CacheFilePool ==
    {F_foo_9_xz, F_foo_10_xz, F_foo_9_gzip, F_foo_10_gzip, F_bar_1_xz, F_short, F_other}

\* a directory listing: distinct file names in any order
Listings ==
    UNION {{l \in [1..n -> CacheFilePool] : \A i, j \in 1..n : i # j => l[i] # l[j]}
           : n \in 0..MaxFiles}

CacheDirs ==
    {[listable |-> FALSE, listing |-> <<>>]}
    \cup {[listable |-> TRUE, listing |-> l] : l \in Listings}

SubDir(lines) == [isdir |-> TRUE, has_desc |-> TRUE, lines |-> lines]

D_foo == SubDir(DescLines(S_foo, S_9, S_1, S_any))
D_foo10 == SubDir(DescLines(S_foo, S_10, S_1, S_any))
D_bar == SubDir(DescLines(S_bar, S_1, S_1, S_i686))
D_nodesc == [isdir |-> TRUE, has_desc |-> FALSE, lines |-> <<>>]
D_file == [isdir |-> FALSE, has_desc |-> FALSE, lines |-> <<>>]
D_nohyphen == SubDir(<<NAME_MARKER, S_foo, VERSION_MARKER, S_9, ARCH_MARKER, S_any>>)
D_twohyphens == SubDir(DescLines(S_foo, S_9 \o <<HYPHEN>> \o S_1, S_1, S_any))
D_nomarker == SubDir(<<NAME_MARKER, S_foo, VERSION_MARKER, S_9 \o <<HYPHEN>> \o S_1>>)

InstalledDirs ==
    {[listable |-> FALSE, entries |-> <<>>]}
    \cup {[listable |-> TRUE, entries |-> e] :
            e \in {<<>>, <<D_foo>>, <<D_bar>>, <<D_file, D_foo, D_bar>>, <<D_foo, D_foo10>>,
                   <<D_foo, D_nodesc>>, <<D_nohyphen>>, <<D_twohyphens>>,
                   <<D_bar, D_nomarker>>}}

ArgSets ==
    [uninstalled : BOOLEAN, morethan : BOOLEAN, delete : BOOLEAN, number : 0..MaxKeep]

-----------------------------------------------------------------------------
(* Harness state, idle during a run *)

NoCmpIn == [a |-> NoPackage, b |-> NoPackage, c |-> NoPackage]
NoCmpOut == [done |-> FALSE]
NoParseIn == [name |-> <<>>, version |-> <<>>, pkg_version |-> <<>>, arch |-> <<>>,
              file_ext |-> <<>>, sep |-> 0]
NoParseOut == [done |-> FALSE, exc |-> "", val |-> NoPkgFile]

HarnessIdle ==
    /\ cmpIn = NoCmpIn
    /\ cmpOut = NoCmpOut
    /\ parseIn = NoParseIn
    /\ parseOut = NoParseOut

-----------------------------------------------------------------------------
(* __main__ *)

Init ==
    /\ pc = "parse_args"
    /\ args \in ArgSets
    /\ installedDir \in InstalledDirs
    /\ cacheDir \in CacheDirs
    /\ installed = <<>>
    /\ pkgfiles = <<>>
    /\ old = <<>>
    /\ uninstalled = <<>>
    /\ old_files = <<>>
    /\ queue = <<>>
    /\ attempted = <<>>
    /\ removed = {}
    /\ stdout = <<>>
    /\ failed = FALSE
    /\ HarnessIdle

\* parser.parse_args and the check that a selection mode was given
ParseArgs ==
    /\ pc = "parse_args"
    /\ pc' = IF ~(args.uninstalled \/ args.morethan) THEN "usage_error"
             ELSE "build_installed"
    /\ UNCHANGED <<args, installedDir, cacheDir, installed, pkgfiles, old, uninstalled, old_files,
                   queue, attempted, removed, stdout, failed>>
    /\ UNCHANGED harnessVars

\* installed = InstalledPkgList(args.installed_path); an exception ends the run
BuildInstalled ==
    /\ pc = "build_installed"
    /\ LET r == InstalledPkgList(installedDir)
       IN IF r.exc # ""
          THEN /\ pc' = "crashed"
               /\ failed' = TRUE
               /\ installed' = installed
          ELSE /\ pc' = "build_cache"
               /\ failed' = failed
               /\ installed' = r.val
    /\ UNCHANGED <<args, installedDir, cacheDir, pkgfiles, old, uninstalled, old_files,
                   queue, attempted, removed, stdout>>
    /\ UNCHANGED harnessVars

\* variant of BuildCache that goes on with the entries parsed before the exception
BuildCache_continue ==
    /\ pc = "build_cache"
    /\ LET r == PkgFileList(cacheDir)
       IN /\ pc' = "select"
          /\ failed' = (r.exc # "")
          /\ pkgfiles' = r.val
    /\ UNCHANGED <<args, installedDir, cacheDir, installed, old, uninstalled, old_files,
                   queue, attempted, removed, stdout>>
    /\ UNCHANGED harnessVars

\* pkgfiles = PkgFileList(args.cache_path); an exception ends the run
BuildCache ==
    /\ pc = "build_cache"
    /\ LET r == PkgFileList(cacheDir)
       IN IF r.exc # ""
          THEN /\ pc' = "crashed"
               /\ failed' = TRUE
               /\ pkgfiles' = pkgfiles
          ELSE /\ pc' = "select"
               /\ failed' = failed
               /\ pkgfiles' = r.val
    /\ UNCHANGED <<args, installedDir, cacheDir, installed, old, uninstalled, old_files,
                   queue, attempted, removed, stdout>>
    /\ UNCHANGED harnessVars

\* old = older_than(...); uninstalled = uninstalled_packages(...)
Select ==
    /\ pc = "select"
    /\ old' = older_than(pkgfiles, installed, args.number)
    /\ uninstalled' = uninstalled_packages(pkgfiles, installed)
    /\ pc' = IF args.delete THEN "remove_uninstalled" ELSE "list"
    /\ UNCHANGED <<args, installedDir, cacheDir, installed, pkgfiles, old_files,
                   queue, attempted, removed, stdout, failed>>
    /\ UNCHANGED harnessVars

\* print_packages: one line per package
print_packages(packages) ==
    [i \in 1..Len(packages) |-> [kind |-> "package", text |-> Package__str__(packages[i])]]

\* print_installed: one line per package of each of the lists, list after list
RECURSIVE print_installed(_)
print_installed(packages) ==
    IF packages = <<>> THEN <<>>
    ELSE print_packages(Head(packages)) \o print_installed(Tail(packages))

\* the branch `if not args.delete`
ListSelected ==
    /\ pc = "list"
    /\ stdout' = stdout
                 \o (IF args.uninstalled THEN print_packages(uninstalled) ELSE <<>>)
                 \o (IF args.morethan THEN print_packages(old) ELSE <<>>)
    /\ pc' = "done"
    /\ UNCHANGED <<args, installedDir, cacheDir, installed, pkgfiles, old, uninstalled, old_files,
                   queue, attempted, removed, failed>>
    /\ UNCHANGED harnessVars

\* variant of EnterRemoveUninstalled that does not test args.uninstalled
EnterRemoveUninstalled_unconditional ==
    /\ pc = "remove_uninstalled"
    /\ queue' = uninstalled
    /\ pc' = "removing_uninstalled"
    /\ UNCHANGED <<args, installedDir, cacheDir, installed, pkgfiles, old, uninstalled, old_files,
                   attempted, removed, stdout, failed>>
    /\ UNCHANGED harnessVars

\* `if args.uninstalled: remove_packages(uninstalled)`
EnterRemoveUninstalled ==
    /\ pc = "remove_uninstalled"
    /\ IF args.uninstalled
       THEN /\ queue' = uninstalled
            /\ pc' = "removing_uninstalled"
       ELSE /\ queue' = queue
            /\ pc' = "remove_old"
    /\ UNCHANGED <<args, installedDir, cacheDir, installed, pkgfiles, old, uninstalled, old_files,
                   attempted, removed, stdout, failed>>
    /\ UNCHANGED harnessVars

\* `if args.morethan: old_files = find_files(old, pkgfiles); remove_packages(old_files)`
EnterRemoveOld ==
    /\ pc = "remove_old"
    /\ IF args.morethan
       THEN /\ old_files' = find_files(old, pkgfiles)
            /\ queue' = old_files'
            /\ pc' = "removing_old"
       ELSE /\ old_files' = old_files
            /\ queue' = queue
            /\ pc' = "done"
    /\ UNCHANGED <<args, installedDir, cacheDir, installed, pkgfiles, old, uninstalled,
                   attempted, removed, stdout, failed>>
    /\ UNCHANGED harnessVars

\* what os.remove can do on a file, whatever this run did to it before: remove
\* it, fail on a permission (EACCES), or fail otherwise (the file vanished since
\* the listing, or this run removed it already and nobody wrote it again)
RemoveOutcomes == {"ok", "EACCES", "ENOENT"}

\* variant of RemoveOne without the exit(): the loop goes on after EACCES
RemoveOne_no_exit(outcome) ==
    /\ pc \in {"removing_uninstalled", "removing_old"}
    /\ queue # <<>>
    /\ LET pkg == Head(queue)
       IN /\ outcome \in RemoveOutcomes
          /\ attempted' = Append(attempted, [file |-> pkg.filename, outcome |-> outcome])
          /\ removed' = IF outcome = "ok" THEN removed \cup {pkg.filename} ELSE removed
          /\ stdout' = stdout
                       \o <<[kind |-> "deleting", text |-> Package__str__(pkg)]>>
                       \o (IF outcome = "EACCES"
                           THEN <<[kind |-> "permission_hint", text |-> <<>>]>>
                           ELSE <<>>)
          /\ pc' = pc
          /\ queue' = Tail(queue)
    /\ UNCHANGED <<args, installedDir, cacheDir, installed, pkgfiles, old, uninstalled, old_files,
                   failed>>
    /\ UNCHANGED harnessVars

\* variant of RemoveOne that exits on every OSError, a missing file included
RemoveOne_exit_on_any_error(outcome) ==
    /\ pc \in {"removing_uninstalled", "removing_old"}
    /\ queue # <<>>
    /\ LET pkg == Head(queue)
       IN /\ outcome \in RemoveOutcomes
          /\ attempted' = Append(attempted, [file |-> pkg.filename, outcome |-> outcome])
          /\ removed' = IF outcome = "ok" THEN removed \cup {pkg.filename} ELSE removed
          /\ stdout' = stdout
                       \o <<[kind |-> "deleting", text |-> Package__str__(pkg)]>>
                       \o (IF outcome # "ok"
                           THEN <<[kind |-> "permission_hint", text |-> <<>>]>>
                           ELSE <<>>)
          /\ IF outcome # "ok"
             THEN /\ pc' = "exited"
                  /\ queue' = queue
             ELSE /\ pc' = pc
                  /\ queue' = Tail(queue)
    /\ UNCHANGED <<args, installedDir, cacheDir, installed, pkgfiles, old, uninstalled, old_files,
                   failed>>
    /\ UNCHANGED harnessVars

\* one iteration of the loop of remove_packages: only EACCES is acted upon, any
\* other OSError is swallowed and the loop goes on
RemoveOne(outcome) ==
    /\ pc \in {"removing_uninstalled", "removing_old"}
    /\ queue # <<>>
    /\ LET pkg == Head(queue)
       IN /\ outcome \in RemoveOutcomes
          /\ attempted' = Append(attempted, [file |-> pkg.filename, outcome |-> outcome])
          /\ removed' = IF outcome = "ok" THEN removed \cup {pkg.filename} ELSE removed
          /\ stdout' = stdout
                       \o <<[kind |-> "deleting", text |-> Package__str__(pkg)]>>
                       \o (IF outcome = "EACCES"
                           THEN <<[kind |-> "permission_hint", text |-> <<>>]>>
                           ELSE <<>>)
          /\ IF outcome = "EACCES"
             THEN /\ pc' = "exited"
                  /\ queue' = queue
             ELSE /\ pc' = pc
                  /\ queue' = Tail(queue)
    /\ UNCHANGED <<args, installedDir, cacheDir, installed, pkgfiles, old, uninstalled, old_files,
                   failed>>
    /\ UNCHANGED harnessVars

\* the loop of remove_packages is exhausted and the call returns
RemoveReturn ==
    /\ pc \in {"removing_uninstalled", "removing_old"}
    /\ queue = <<>>
    /\ pc' = IF pc = "removing_uninstalled" THEN "remove_old" ELSE "done"
    /\ UNCHANGED <<args, installedDir, cacheDir, installed, pkgfiles, old, uninstalled, old_files,
                   queue, attempted, removed, stdout, failed>>
    /\ UNCHANGED harnessVars

Next ==
    \/ ParseArgs
    \/ BuildInstalled
    \/ BuildCache
    \/ Select
    \/ ListSelected
    \/ EnterRemoveUninstalled
    \/ EnterRemoveOld
    \/ \E outcome \in RemoveOutcomes : RemoveOne(outcome)
    \/ RemoveReturn

Spec == Init /\ [][Next]_vars

-----------------------------------------------------------------------------
(* The module used as a library: a caller builds the two catalogs and then    *)
(* calls the public operations that __main__ itself never calls, PkgList.sort *)
(* and print_installed.                                                       *)

MaxLibLines == 6     \* longest output a caller's session is followed for

LibInit ==
    /\ pc = "build_installed"
    /\ args = [uninstalled |-> FALSE, morethan |-> FALSE, delete |-> FALSE, number |-> 0]
    /\ installedDir \in InstalledDirs
    /\ cacheDir \in CacheDirs
    /\ installed = <<>>
    /\ pkgfiles = <<>>
    /\ old = <<>>
    /\ uninstalled = <<>>
    /\ old_files = <<>>
    /\ queue = <<>>
    /\ attempted = <<>>
    /\ removed = {}
    /\ stdout = <<>>
    /\ failed = FALSE
    /\ HarnessIdle

\* pkgfiles.sort()
SortPkgFiles ==
    /\ pc = "select"
    /\ pkgfiles' = PkgList_sort(pkgfiles)
    /\ UNCHANGED <<pc, args, installedDir, cacheDir, installed, old, uninstalled, old_files,
                   queue, attempted, removed, stdout, failed>>
    /\ UNCHANGED harnessVars

\* installed.sort()
SortInstalled ==
    /\ pc = "select"
    /\ installed' = PkgList_sort(installed)
    /\ UNCHANGED <<pc, args, installedDir, cacheDir, pkgfiles, old, uninstalled, old_files,
                   queue, attempted, removed, stdout, failed>>
    /\ UNCHANGED harnessVars

\* print_installed(packages) on the lists of the catalogs the caller holds
PrintInstalled ==
    /\ pc = "select"
    /\ \E packages \in {<<installed>>, <<pkgfiles>>, <<installed, pkgfiles>>} :
          /\ Len(stdout) + Len(print_installed(packages)) <= MaxLibLines
          /\ stdout' = stdout \o print_installed(packages)
    /\ UNCHANGED <<pc, args, installedDir, cacheDir, installed, pkgfiles, old, uninstalled,
                   old_files, queue, attempted, removed, failed>>
    /\ UNCHANGED harnessVars

LibNext ==
    \/ BuildInstalled
    \/ BuildCache
    \/ SortPkgFiles
    \/ SortInstalled
    \/ PrintInstalled

SpecLib == LibInit /\ [][LibNext]_vars

-----------------------------------------------------------------------------
(* Comparison harness: the operators of Package applied to drawn values *)

RunIdle ==
    /\ pc = "harness"
    /\ args = [uninstalled |-> FALSE, morethan |-> FALSE, delete |-> FALSE, number |-> 0]
    /\ installedDir = [listable |-> FALSE, entries |-> <<>>]
    /\ cacheDir = [listable |-> FALSE, listing |-> <<>>]
    /\ installed = <<>>
    /\ pkgfiles = <<>>
    /\ old = <<>>
    /\ uninstalled = <<>>
    /\ old_files = <<>>
    /\ queue = <<>>
    /\ attempted = <<>>
    /\ removed = {}
    /\ stdout = <<>>
    /\ failed = FALSE

Packages ==
    [name : {S_foo, S_bar}, version : {S_9, S_10}, pkg_version : {S_1, S_3},
     arch : {S_any, S_i686}]

CmpInit ==
    /\ RunIdle
    /\ cmpIn \in [a : Packages, b : Packages, c : Packages]
    /\ cmpOut = NoCmpOut
    /\ parseIn = NoParseIn
    /\ parseOut = NoParseOut

Compare ==
    /\ ~cmpOut.done
    /\ cmpOut' = [done |-> TRUE,
                  eq_aa |-> Package__eq__(cmpIn.a, cmpIn.a),
                  eq_ab |-> Package__eq__(cmpIn.a, cmpIn.b),
                  eq_ba |-> Package__eq__(cmpIn.b, cmpIn.a),
                  eq_bc |-> Package__eq__(cmpIn.b, cmpIn.c),
                  eq_ac |-> Package__eq__(cmpIn.a, cmpIn.c),
                  ne_ab |-> Package__ne__(cmpIn.a, cmpIn.b),
                  lt_ab |-> Package__lt__(cmpIn.a, cmpIn.b),
                  lt_ba |-> Package__lt__(cmpIn.b, cmpIn.a),
                  lt_bc |-> Package__lt__(cmpIn.b, cmpIn.c),
                  lt_ac |-> Package__lt__(cmpIn.a, cmpIn.c),
                  le_ab |-> Package__le__(cmpIn.a, cmpIn.b),
                  gt_ab |-> Package__gt__(cmpIn.a, cmpIn.b),
                  gt_ba |-> Package__gt__(cmpIn.b, cmpIn.a),
                  ge_ab |-> Package__ge__(cmpIn.a, cmpIn.b)]
    /\ UNCHANGED <<cmpIn, parseIn, parseOut>>
    /\ UNCHANGED runVars

CmpNext == Compare

SpecCmp == CmpInit /\ [][CmpNext]_vars

-----------------------------------------------------------------------------
(* Parsing harness: PkgFile applied to file names written from known parts *)

\* the file name written from the parts, with `sep` between release and architecture
WrittenName(in) ==
    in.name \o <<HYPHEN>> \o in.version \o <<HYPHEN>> \o in.pkg_version
    \o <<in.sep>> \o in.arch \o <<DOT>> \o in.file_ext

ParseInputs ==
    [name : {S_foo, S_foo_bar, S_bar}, version : {S_1_0, S_9}, pkg_version : {S_3, S_1},
     arch : {S_any, S_x86_64}, file_ext : {EXTENSIONS[1], EXTENSIONS[2]},
     sep : {HYPHEN, DOT}]

ParseInit ==
    /\ RunIdle
    /\ cmpIn = NoCmpIn
    /\ cmpOut = NoCmpOut
    /\ parseIn \in ParseInputs
    /\ parseOut = NoParseOut

Parse ==
    /\ ~parseOut.done
    /\ LET r == PkgFile(WrittenName(parseIn))
       IN parseOut' = [done |-> TRUE, exc |-> r.exc, val |-> r.val]
    /\ UNCHANGED <<cmpIn, cmpOut, parseIn>>
    /\ UNCHANGED runVars

ParseNext == Parse

SpecParse == ParseInit /\ [][ParseNext]_vars

-----------------------------------------------------------------------------
(* Properties *)

\* the run has computed both selections
Selected ==
    pc \in {"list", "remove_uninstalled", "removing_uninstalled", "remove_old",
            "removing_old", "done", "exited"}

InstalledNameSet == {installed[i].name : i \in 1..Len(installed)}

\* number of entries of a list that carry the name p
CountNamed(list, p) == Cardinality({i \in 1..Len(list) : list[i].name = p})

\* the cache entry a file name belongs to (file names of a listing are distinct)
EntryOf(filename) ==
    pkgfiles[CHOOSE j \in 1..Len(pkgfiles) : pkgfiles[j].filename = filename]

PosInCache(entry) == CHOOSE j \in 1..Len(pkgfiles) : pkgfiles[j] = entry

\* C1: uninstalled_packages returns exactly the cache entries whose name is the
\* name of no installed record: none with an installed name, every other entry
\* once, in the iteration order of the cache catalog.
C1_UninstalledExact ==
    Selected =>
        /\ \A i \in 1..Len(uninstalled) :
              /\ uninstalled[i].name \notin InstalledNameSet
              /\ \E j \in 1..Len(pkgfiles) : pkgfiles[j] = uninstalled[i]
        /\ \A j \in 1..Len(pkgfiles) :
              pkgfiles[j].name \notin InstalledNameSet
              => Cardinality({i \in 1..Len(uninstalled) : uninstalled[i] = pkgfiles[j]}) = 1
        /\ \A i, k \in 1..Len(uninstalled) :
              i < k => PosInCache(uninstalled[i]) < PosInCache(uninstalled[k])

\* an installed entry sits between two uninstalled ones, and both are returned in order
C1_Witness ==
    /\ Selected
    /\ Len(pkgfiles) = 3
    /\ Len(uninstalled) = 2
    /\ pkgfiles[2].name \in InstalledNameSet
    /\ uninstalled = <<pkgfiles[1], pkgfiles[3]>>

\* C2: for every installed name p with k cache entries, older_than returns exactly
\* max(0, k - keep) entries named p (none when keep >= k, all k when keep = 0).
C2_ExcessCount ==
    Selected =>
        \A p \in InstalledNameSet :
            LET k == CountNamed(pkgfiles, p)
            IN CountNamed(old, p) = IF k - args.number > 0 THEN k - args.number ELSE 0

\* C3: the entries older_than returns for an installed name are the lowest ones
\* in plain string order of (name, version, pkg_version): no returned entry sorts
\* above an entry of that name that is kept; of "9" and "10" with keep = 1 it is
\* "10" that is returned.
C3_LowestByStringOrder ==
    Selected =>
        \A p \in InstalledNameSet :
            /\ \A i \in 1..Len(old) : \A j \in 1..Len(pkgfiles) :
                  ( /\ old[i].name = p
                    /\ pkgfiles[j].name = p
                    /\ \A m \in 1..Len(old) : old[m] # pkgfiles[j] )
                  => ~KeyLt(pkgfiles[j], old[i])
            /\ ( /\ args.number = 1
                 /\ CountNamed(pkgfiles, p) = 2
                 /\ \E j \in 1..Len(pkgfiles) : pkgfiles[j].name = p /\ pkgfiles[j].version = S_9
                 /\ \E j \in 1..Len(pkgfiles) : pkgfiles[j].name = p /\ pkgfiles[j].version = S_10 )
               => /\ CountNamed(old, p) = 1
                  /\ \A i \in 1..Len(old) : old[i].name = p => old[i].version = S_10

\* versions "9" and "10" of an installed package, keep = 1: "10" is the excess
C3_Witness ==
    /\ Selected
    /\ args.number = 1
    /\ \E i \in 1..Len(old) : old[i].version = S_10
    /\ \E j \in 1..Len(pkgfiles) :
          /\ pkgfiles[j].version = S_9
          /\ pkgfiles[j].name \in InstalledNameSet
          /\ \A m \in 1..Len(old) : old[m] # pkgfiles[j]

\* C4 as stated: a file name <name>-<version>-<release>.<arch>.<ext> parses to
\* those parts.
C4_DotBeforeArch ==
    (parseOut.done /\ parseIn.sep = DOT) =>
        /\ parseOut.exc = ""
        /\ parseOut.val.name = parseIn.name
        /\ parseOut.val.version = parseIn.version
        /\ parseOut.val.pkg_version = parseIn.pkg_version
        /\ parseOut.val.arch = parseIn.arch

\* C4 amended: a file name <name>-<version>-<release>-<arch>.<ext> parses to
\* those parts: the last three hyphen-separated tokens are version, release and
\* arch.ext, the name (hyphens included) is everything before them, and the last
\* token splits at its first dot into architecture and extension.
C4_HyphenBeforeArch ==
    (parseOut.done /\ parseIn.sep = HYPHEN) =>
        /\ parseOut.exc = ""
        /\ parseOut.val.name = parseIn.name
        /\ parseOut.val.version = parseIn.version
        /\ parseOut.val.pkg_version = parseIn.pkg_version
        /\ parseOut.val.arch = parseIn.arch
        /\ parseOut.val.file_ext = parseIn.file_ext

\* "foo-bar-1.0-3-any.pkg.tar.xz" has been parsed
C4_Witness ==
    /\ parseOut.done
    /\ parseIn = [name |-> S_foo_bar, version |-> S_1_0, pkg_version |-> S_3,
                  arch |-> S_any, file_ext |-> EXTENSIONS[1], sep |-> HYPHEN]
    /\ parseOut.val.name = S_foo_bar
    /\ parseOut.val.arch = S_any

\* C5: equality is an equivalence, every comparison returns, < and > are
\* asymmetric, total on (name, version, pkg_version) and consistent with equality.
C5_OrderLaws ==
    cmpOut.done =>
        /\ cmpOut.eq_aa
        /\ cmpOut.eq_ab = cmpOut.eq_ba
        /\ (cmpOut.eq_ab /\ cmpOut.eq_bc) => cmpOut.eq_ac
        /\ cmpOut.lt_ab.exc = ""
        /\ cmpOut.le_ab.exc = ""
        /\ cmpOut.gt_ab.exc = ""
        /\ cmpOut.ge_ab.exc = ""
        /\ ~(cmpOut.lt_ab.val /\ cmpOut.lt_ba.val)
        /\ ~(cmpOut.gt_ab.val /\ cmpOut.gt_ba.val)
        /\ cmpOut.eq_ab => (~cmpOut.lt_ab.val /\ ~cmpOut.gt_ab.val)
        /\ (cmpOut.lt_ab.val /\ cmpOut.lt_bc.val) => cmpOut.lt_ac.val

\* each catalog holds one entry per sub-directory, resp. per archive file, listed
CatalogsComplete ==
    /\ Len(installed) = Cardinality({i \in 1..Len(installedDir.entries) :
                                        installedDir.entries[i].isdir})
    /\ Len(pkgfiles) = Cardinality({i \in 1..Len(cacheDir.listing) :
                                        endswith_any(cacheDir.listing[i], EXTENSIONS)})

\* C6: no removal is attempted before both catalogs are completely built, and a
\* run in which a catalog constructor raised is over without any removal.
C6_BuildBeforeRemove ==
    /\ failed => (pc = "crashed" /\ attempted = <<>> /\ removed = {})
    /\ attempted # <<>> => (~failed /\ installedDir.listable /\ cacheDir.listable
                            /\ CatalogsComplete)

\* a delete run died on a malformed cache file name next to a removable file
C6_Witness ==
    /\ pc = "crashed"
    /\ failed
    /\ args.delete
    /\ args.uninstalled
    /\ Len(installed) > 0
    /\ \E i, j \in 1..Len(cacheDir.listing) :
          cacheDir.listing[i] = F_short /\ cacheDir.listing[j] = F_bar_1_xz

\* C7: a permission error is the last removal attempt of the run: the hint is
\* printed and the run is over, whatever is left in this list or the other one.
C7_PermissionErrorStops ==
    \A i \in 1..Len(attempted) :
        attempted[i].outcome = "EACCES"
        => /\ i = Len(attempted)
           /\ pc = "exited"
           /\ stdout[Len(stdout)].kind = "permission_hint"

\* both modes requested, the first uninstalled file was protected, and the
\* retention list is never entered
C7_Witness ==
    /\ pc = "exited"
    /\ args.uninstalled
    /\ args.morethan
    /\ old # <<>>
    /\ Len(attempted) = 1
    /\ queue = uninstalled

FileNames(list) == [i \in 1..Len(list) |-> list[i].filename]

AttemptedFiles == [i \in 1..Len(attempted) |-> attempted[i].file]

\* C8: a file that is missing when its removal is attempted does not end the
\* run: the loop goes on over every remaining selected file.
C8_MissingFileGoesOn ==
    /\ \A i \in 1..Len(attempted) :
          attempted[i].outcome = "ENOENT" => (i < Len(attempted) \/ pc # "exited")
    /\ pc = "removing_uninstalled"
       => AttemptedFiles \o FileNames(queue) = FileNames(uninstalled)
    /\ pc = "removing_old"
       => AttemptedFiles \o FileNames(queue)
          = (IF args.uninstalled THEN FileNames(uninstalled) ELSE <<>>) \o FileNames(old_files)
    /\ (pc = "done" /\ args.delete)
       => AttemptedFiles
          = (IF args.uninstalled THEN FileNames(uninstalled) ELSE <<>>)
            \o (IF args.morethan THEN FileNames(old_files) ELSE <<>>)

\* the first selected file had vanished, and the run went on to the others
C8_Witness ==
    /\ pc = "done"
    /\ Len(attempted) >= 2
    /\ attempted[1].outcome = "ENOENT"
    /\ attempted[2].outcome = "ok"

\* C9: find_files maps the output of older_than to itself, so that of the k
\* cache files of an installed name at least min(k, keep) are not passed to
\* deletion.
C9_FindFilesIdentity ==
    pc = "removing_old" =>
        /\ old_files = old
        /\ \A p \in InstalledNameSet :
              LET k == CountNamed(pkgfiles, p)
                  kept == {j \in 1..Len(pkgfiles) :
                              /\ pkgfiles[j].name = p
                              /\ \A i \in 1..Len(old_files) :
                                    old_files[i].filename # pkgfiles[j].filename}
              IN Cardinality(kept) >= IF k < args.number THEN k ELSE args.number

\* C10: without --delete nothing is removed; with --delete and only
\* --uninstalled no entry with an installed name is attempted; with --delete and
\* only --morethan no entry with an uninstalled name is attempted.
C10_FlagsGateRemoval ==
    /\ ~args.delete => (attempted = <<>> /\ removed = {})
    /\ (args.delete /\ args.uninstalled /\ ~args.morethan)
       => \A i \in 1..Len(attempted) :
             EntryOf(attempted[i].file).name \notin InstalledNameSet
    /\ (args.delete /\ ~args.uninstalled /\ args.morethan)
       => \A i \in 1..Len(attempted) :
             EntryOf(attempted[i].file).name \in InstalledNameSet

\* a retention-only delete run finished while uninstalled files sit in the cache
C10_Witness ==
    /\ pc = "done"
    /\ args.delete
    /\ ~args.uninstalled
    /\ args.morethan
    /\ attempted # <<>>
    /\ uninstalled # <<>>

====
